---------------------------- MODULE Spec2Model ----------------------------
(***************************************************************************)
(* Admission-time budget enforcement of the FinOps governance operator:    *)
(* the mutating webhook (Default, the Auto-Sizer) and the validating       *)
(* webhook (ValidateCreate, the Budget Enforcer) of                        *)
(* internal/webhook/v1/pod_webhook.go, together with the API server steps  *)
(* that surround them (a request arrives, an admitted Pod is persisted, a  *)
(* Pod changes phase).                                                     *)
(***************************************************************************)
EXTENDS Integers, Sequences, FiniteSets, Bags, TLC

VARIABLES
    budgets,        \* ProjectBudgetList.Items, in the order Client.List returns them
    pods,           \* the Pods persisted in the cluster: a bag, as Client.List pays no heed to order
    req,            \* the admission requests under way or rejected: a bag of
                    \* [pc: position in the admission chain, obj: object, err: response]
    rejectedPods,   \* finops_rejected_pods_total{team_namespace}
    savedCpu,       \* finops_saved_cpu_millicores_total{team_namespace}
    events          \* what Recorder.Event has recorded, oldest first

vars == <<budgets, pods, req, rejectedPods, savedCpu, events>>

-----------------------------------------------------------------------------
(* Bounds *)

\* Number of creation requests the API server receives in one behaviour.
MaxReq == 2

\* Number of recorded events up to which Pods are updated and deleted.
MaxEvents == 2

-----------------------------------------------------------------------------
(* Values *)

Namespaces == {"team-alpha", "team-beta"}

AutoResizeKey == "finops.acasa.acme/auto-resize"
ResizedKey == "finops.acasa.acme/resized"

DryRunMode == "DryRun"
EnforceMode == "Enforce"

PodSucceeded == "Succeeded"
PodFailed == "Failed"
PodPending == "Pending"
PodRunning == "Running"

Mi == 1024 * 1024

\* A Go map[string]string / ResourceList: a function on the keys that are set.
EmptyMap == [k \in {} |-> ""]

\* m[k] of a Go map: the zero value "" when the key is absent.
MapGet(m, k) == IF k \in DOMAIN m THEN m[k] ELSE ""

\* m[k] = v of a Go map.
MapSet(m, k, v) == [j \in DOMAIN m \cup {k} |-> IF j = k THEN v ELSE m[j]]

\* ResourceList.Cpu(): the "cpu" entry as millicores, a zero Quantity when absent.
Cpu(limits) == IF "cpu" \in DOMAIN limits THEN limits["cpu"] ELSE 0

\* ResourceList.Memory(): the "memory" entry as bytes, a zero Quantity when absent.
Memory(limits) == IF "memory" \in DOMAIN limits THEN limits["memory"] ELSE 0

-----------------------------------------------------------------------------
(* resource.ParseQuantity on the budget's limit strings.  A string is a     *)
(* sequence of characters; a Quantity is a number with its suffix.          *)

DigitChars == {"0", "1", "2", "3", "4", "5", "6", "7", "8", "9"}

DigitVal(c) ==
    CASE c = "0" -> 0 [] c = "1" -> 1 [] c = "2" -> 2 [] c = "3" -> 3
      [] c = "4" -> 4 [] c = "5" -> 5 [] c = "6" -> 6 [] c = "7" -> 7
      [] c = "8" -> 8 [] c = "9" -> 9

\* Length of the leading run of digits of s.
RECURSIVE NumLen(_)
NumLen(s) ==
    IF s = <<>> \/ Head(s) \notin DigitChars THEN 0 ELSE 1 + NumLen(Tail(s))

\* The decimal value of the digit string s.
RECURSIVE NumVal(_)
NumVal(s) ==
    IF s = <<>> THEN 0
    ELSE 10 * NumVal(SubSeq(s, 1, Len(s) - 1)) + DigitVal(s[Len(s)])

QuantitySuffixes == {<<>>, <<"m">>, <<"K", "i">>, <<"M", "i">>}

ZeroQuantity == [num |-> 0, suffix |-> <<>>]

\* (Quantity, error): the zero Quantity and an error on a malformed string.
ParseQuantity(s) ==
    LET n == NumLen(s)
        suffix == SubSeq(s, n + 1, Len(s))
    IN  IF n = 0 \/ suffix \notin QuantitySuffixes
        THEN [q |-> ZeroQuantity, err |-> TRUE]
        ELSE [q |-> [num |-> NumVal(SubSeq(s, 1, n)), suffix |-> suffix], err |-> FALSE]

\* Quantity.MilliValue(): the quantity in thousandths of its unit.
MilliValue(q) ==
    CASE q.suffix = <<"m">> -> q.num
      [] q.suffix = <<>> -> q.num * 1000
      [] q.suffix = <<"K", "i">> -> q.num * 1024 * 1000
      [] q.suffix = <<"M", "i">> -> q.num * Mi * 1000

\* Quantity.Value(): the quantity in its unit, rounded up.
Value(q) ==
    CASE q.suffix = <<"m">> -> (q.num + 999) \div 1000
      [] q.suffix = <<>> -> q.num
      [] q.suffix = <<"K", "i">> -> q.num * 1024
      [] q.suffix = <<"M", "i">> -> q.num * Mi

-----------------------------------------------------------------------------
(* The objects the webhooks are handed, and the budgets they read. *)

\* An object of another kind than Pod, as a caller may pass by mistake.
OtherObject == [kind |-> "ConfigMap"]

\* A Pod of an incoming creation request: limits holds Resources.Limits of each container.
Pod(namespace, annotations, limits) ==
    [kind |-> "Pod", namespace |-> namespace, annotations |-> annotations,
     containers |-> [i \in 1..Len(limits) |-> [limits |-> limits[i]]],
     phase |-> PodPending]

OptIn == (AutoResizeKey :> "true")
OptOut == (AutoResizeKey :> "false")

\* The Pods users ask to create.  Against a budget of 500m CPU and 4Mi memory:
\* one that fills the CPU budget exactly, one that takes 300m and 3Mi of it,
\* ones that fit alone and not beside the latter (in CPU, in memory, in both), with and
\* without the opt-in annotation, one with two containers, one without any,
\* and one in a namespace that has no budget.
IncomingPods ==
    { Pod("team-beta", OptOut,   << ("cpu" :> 500) >>),
      Pod("team-beta", EmptyMap, << ("cpu" :> 300) @@ ("memory" :> 3 * Mi) >>),
      Pod("team-beta", EmptyMap, << ("cpu" :> 400) >>),
      Pod("team-beta", OptIn,    << ("cpu" :> 400) >>),
      Pod("team-beta", EmptyMap, << ("memory" :> 2 * Mi) >>),
      Pod("team-beta", EmptyMap, << ("cpu" :> 400) @@ ("memory" :> 2 * Mi) >>),
      Pod("team-beta", OptIn,    << ("cpu" :> 400) @@ ("memory" :> Mi),
                                    ("cpu" :> 200) @@ ("memory" :> Mi) >>),
      Pod("team-beta", OptIn,    << >>),
      Pod("team-alpha", OptIn,   << ("cpu" :> 400), ("cpu" :> 200) >>) }

Objects == IncomingPods \cup {OtherObject}

WellFormedCpu == <<"5", "0", "0", "m">>
MalformedCpu == <<"5", "o", "o">>
WellFormedMemory == <<"4", "M", "i">>
MalformedMemory == <<"4", "M", "x">>

\* The specs of the budgets: the well-formed ones, with and without a memory
\* limit, in both modes, and one for each limit string that does not parse.
BudgetSpecs ==
    [teamName : {"team-beta"}, maxCpuLimit : {WellFormedCpu},
     maxMemoryLimit : {<<>>, WellFormedMemory},
     validationMode : {EnforceMode, DryRunMode}]
      \cup
    { [teamName |-> "team-beta", maxCpuLimit |-> MalformedCpu,
       maxMemoryLimit |-> WellFormedMemory, validationMode |-> EnforceMode],
      [teamName |-> "team-beta", maxCpuLimit |-> WellFormedCpu,
       maxMemoryLimit |-> MalformedMemory, validationMode |-> EnforceMode] }

\* ProjectBudgetStatus before the first reconciliation.
NoStatus == [currentCpuUsage |-> <<>>, lastCheckTime |-> ""]

\* A ProjectBudget: its metadata name, its spec and its status.
Budget(name, spec) ==
    [name |-> name, teamName |-> spec.teamName, maxCpuLimit |-> spec.maxCpuLimit,
     maxMemoryLimit |-> spec.maxMemoryLimit, validationMode |-> spec.validationMode,
     status |-> NoStatus]

\* The budget lists a cluster starts with.
BudgetLists ==
    {<<>>} \cup {<<Budget("beta-budget", s)>> : s \in BudgetSpecs}


-----------------------------------------------------------------------------
(* Lookups shared by both webhooks. *)

NoBudget == [name |-> "", teamName |-> ""]

\* The first budget of the listing, whatever its team.
FirstOfAny(items, namespace) == IF items = <<>> THEN NoBudget ELSE Head(items)

\* The last budget of the listing whose Spec.TeamName is the Pod's namespace.
RECURSIVE LastMatch(_, _)
LastMatch(items, namespace) ==
    IF items = <<>> THEN NoBudget
    ELSE IF items[Len(items)].teamName = namespace THEN items[Len(items)]
    ELSE LastMatch(SubSeq(items, 1, Len(items) - 1), namespace)

\* The first budget of the listing whose Spec.TeamName is the Pod's namespace.
RECURSIVE FirstMatch(_, _)
FirstMatch(items, namespace) ==
    IF items = <<>> THEN NoBudget
    ELSE IF Head(items).teamName = namespace THEN Head(items)
    ELSE FirstMatch(Tail(items), namespace)

\* Client.List(&existingPods, client.InNamespace(namespace)): the Pods listed.
InNamespace(namespace) == {p \in BagToSet(pods) : p.namespace = namespace}

\* Sum of the CPU limits (millicores) over the containers cs.
RECURSIVE SumCpu(_)
SumCpu(cs) == IF cs = <<>> THEN 0 ELSE Cpu(Head(cs).limits) + SumCpu(Tail(cs))

\* Sum of the memory limits (bytes) over the containers cs.
RECURSIVE SumMemory(_)
SumMemory(cs) == IF cs = <<>> THEN 0 ELSE Memory(Head(cs).limits) + SumMemory(Tail(cs))

\* The skip with only the Succeeded phase held terminal.
IsTerminalSucceededOnly(p) == p.phase = PodSucceeded

\* Whether the loop over existingPods.Items skips the Pod p.
IsTerminal(p) == p.phase = PodSucceeded \/ p.phase = PodFailed

\* calculateCurrentUsage: (cpuMillis, memoryBytes) of the active Pods among
\* items, each listed as often as the cluster holds it.
RECURSIVE calculateCurrentUsage(_)
calculateCurrentUsage(items) ==
    IF items = {} THEN [cpu |-> 0, mem |-> 0]
    ELSE LET p == CHOOSE x \in items : TRUE
             rest == calculateCurrentUsage(items \ {p})
         IN  IF IsTerminal(p) THEN rest
             ELSE [cpu |-> rest.cpu + CopiesIn(p, pods) * SumCpu(p.containers),
                   mem |-> rest.mem + CopiesIn(p, pods) * SumMemory(p.containers)]

\* The skip with every Pod that is not yet running passed over.
ValidateSkipsPending(p) == p.phase # PodRunning

\* Whether ValidateCreate's own loop over existingPods.Items skips the Pod p.
ValidateSkips(p) == p.phase = PodSucceeded \/ p.phase = PodFailed

\* The CPU of the Pods of the requests rs that are admitted and not yet persisted.
RECURSIVE AdmittedCpu(_)
AdmittedCpu(rs) ==
    IF rs = {} THEN 0
    ELSE LET r == CHOOSE x \in rs : TRUE
         IN  AdmittedCpu(rs \ {r})
               + (IF r.pc = "admitted" THEN CopiesIn(r, req) * SumCpu(r.obj.containers) ELSE 0)

\* The usage with the Pods admitted and not yet persisted counted in, as a
\* reservation at admission would count them.
ExistingUsageWithAdmitted(items) ==
    LET live == calculateCurrentUsage(items)
    IN  [cpu |-> live.cpu + AdmittedCpu(BagToSet(req)), mem |-> live.mem]

\* ValidateCreate's own summation of the usage of the active Pods among items.
RECURSIVE ExistingUsage(_)
ExistingUsage(items) ==
    IF items = {} THEN [cpu |-> 0, mem |-> 0]
    ELSE LET p == CHOOSE x \in items : TRUE
             rest == ExistingUsage(items \ {p})
         IN  IF ValidateSkips(p) THEN rest
             ELSE [cpu |-> rest.cpu + CopiesIn(p, pods) * SumCpu(p.containers),
                   mem |-> rest.mem + CopiesIn(p, pods) * SumMemory(p.containers)]

\* The text of the error a failed Client.List returns.
ClientError == "connection refused"

\* The error Client.List returns when its context is canceled under way.
ContextCanceled == "context canceled"

\* What a call of Client.List(ctx, ...) returns: nil ("") or an error.
ListResults == {"", ClientError, ContextCanceled}

\* The webhooks' test of that result: err == nil.
ListOk(err) == err = ""

\* fmt.Errorf("expected a Pod but got a %T", obj)
NotAPodError(obj) == "expected a Pod but got a *v1." \o obj.kind

-----------------------------------------------------------------------------
(* Default: the mutating webhook (Auto-Sizer). *)

\* The message of the PodAutoSized event.
AutoSizedMsg(oldCpu, remainingCpu) ==
    "Auto-Sized Pod CPU from " \o ToString(oldCpu) \o "m to "
        \o ToString(remainingCpu) \o "m to fit budget"

\* The opt-in annotation taken as set whatever its value.
OptedInByPresence(pod) == AutoResizeKey \in DOMAIN pod.annotations

\* Whether Default looks at the Pod at all: the opt-in annotation.
OptedIn(pod) == MapGet(pod.annotations, AutoResizeKey) = "true"

\* What is left of the CPU budget, the current usage forgotten.
RemainingCpuOfLimit(activeBudget, currentCpu) ==
    MilliValue(ParseQuantity(activeBudget.maxCpuLimit).q)

\* What is left of the CPU budget: limitCpuMilli - currentCpu.
RemainingCpu(activeBudget, currentCpu) ==
    MilliValue(ParseQuantity(activeBudget.maxCpuLimit).q) - currentCpu

\* Nothing left only when the usage is beyond the limit.
NothingLeftBelowZero(remainingCpu) == remainingCpu < 0

\* Whether no budget is left, so that Default returns without touching the Pod.
NothingLeft(remainingCpu) == remainingCpu <= 0

\* The first container resized only above twice what is left.
MustResizeAboveDouble(requestCpu, remainingCpu) == requestCpu > 2 * remainingCpu

\* The first container resized when it asks for less than what is left.
MustResizeBelow(requestCpu, remainingCpu) == requestCpu < remainingCpu

\* Whether the first container is resized.
MustResize(requestCpu, remainingCpu) == requestCpu > remainingCpu

\* The Pod with the CPU limit of every container overwritten and the resized mark set.
ResizedEveryContainer(pod, remainingCpu) ==
    [pod EXCEPT
        !.containers = [i \in DOMAIN @ |->
                           [limits |-> MapSet(@[i].limits, "cpu", remainingCpu)]],
        !.annotations = MapSet(@, ResizedKey, "true")]

\* The Pod with its first container's CPU limit overwritten and no mark set.
ResizedUnmarked(pod, remainingCpu) ==
    [pod EXCEPT !.containers[1].limits = MapSet(@, "cpu", remainingCpu)]

\* The Pod with its first container's CPU limit overwritten and the resized mark set.
Resized(pod, remainingCpu) ==
    [pod EXCEPT
        !.containers[1].limits = MapSet(@, "cpu", remainingCpu),
        !.annotations = MapSet(@, ResizedKey, "true")]

\* calculateCurrentUsage fails and Default passes the error on.
UsageFailedWithError(obj) == [obj |-> obj, err |-> ClientError, events |-> <<>>]

\* What Default leaves when calculateCurrentUsage fails: the Pod as it came, no error.
UsageFailed(obj) == [obj |-> obj, err |-> "", events |-> <<>>]

\* Default(ctx, obj) where Client.List returns the budgets items, and listing
\* budgets and Pods succeeds as given: the object it leaves, the error it
\* returns ("" is nil), the events it records.
DefaultOn(items, obj, budgetsOk, podsOk) ==
    LET unchanged == [obj |-> obj, err |-> "", events |-> <<>>]
    IN  IF obj.kind # "Pod"
        THEN [obj |-> obj, err |-> NotAPodError(obj), events |-> <<>>]
        ELSE IF ~OptedIn(obj) THEN unchanged
        ELSE IF ~budgetsOk THEN unchanged
        ELSE LET activeBudget == FirstMatch(items, obj.namespace)
             IN  IF activeBudget = NoBudget THEN unchanged
                 ELSE IF ~podsOk THEN UsageFailed(obj)
                 ELSE LET currentCpu == calculateCurrentUsage(InNamespace(obj.namespace)).cpu
                          remainingCpu == RemainingCpu(activeBudget, currentCpu)
                      IN  IF NothingLeft(remainingCpu) THEN unchanged
                          ELSE IF Len(obj.containers) > 0
                                    /\ MustResize(Cpu(obj.containers[1].limits), remainingCpu)
                          THEN [obj |-> Resized(obj, remainingCpu),
                                err |-> "",
                                events |-> << [object |-> activeBudget.name,
                                               type |-> "Normal",
                                               reason |-> "PodAutoSized",
                                               message |-> AutoSizedMsg(
                                                   Cpu(obj.containers[1].limits),
                                                   remainingCpu)] >>]
                          ELSE unchanged

\* Default(ctx, obj) in the current state of the cluster.
DefaultCall(obj, budgetsOk, podsOk) == DefaultOn(budgets, obj, budgetsOk, podsOk)

-----------------------------------------------------------------------------
(* ValidateCreate: the validating webhook (Budget Enforcer). *)

\* The CPU violation message with Used and Request swapped.
CpuViolationMsgSwapped(namespace, currentCpuUsage, limitCpuMilli, newPodCpuCost) ==
    "DENIED by FinOps: CPU Budget exceeded for team '" \o namespace
        \o "'. Used: " \o ToString(newPodCpuCost)
        \o "m, Limit: " \o ToString(limitCpuMilli)
        \o "m, Request: " \o ToString(currentCpuUsage) \o "m"

\* The CPU violation message.
CpuViolationMsg(namespace, currentCpuUsage, limitCpuMilli, newPodCpuCost) ==
    "DENIED by FinOps: CPU Budget exceeded for team '" \o namespace
        \o "'. Used: " \o ToString(currentCpuUsage)
        \o "m, Limit: " \o ToString(limitCpuMilli)
        \o "m, Request: " \o ToString(newPodCpuCost) \o "m"

\* The memory violation message with the usage left out of Used.
MemViolationMsgNoUsage(namespace, currentMemUsage, limitMemBytes, newPodMemCost) ==
    "DENIED by FinOps: RAM Budget exceeded for team '" \o namespace
        \o "'. Used: " \o ToString(0)
        \o " bytes, Limit: " \o ToString(limitMemBytes)
        \o " bytes, Request: " \o ToString(newPodMemCost) \o " bytes"

\* The memory violation message.
MemViolationMsg(namespace, currentMemUsage, limitMemBytes, newPodMemCost) ==
    "DENIED by FinOps: RAM Budget exceeded for team '" \o namespace
        \o "'. Used: " \o ToString(currentMemUsage)
        \o " bytes, Limit: " \o ToString(limitMemBytes)
        \o " bytes, Request: " \o ToString(newPodMemCost) \o " bytes"

\* The message of a violation that DryRun mode lets pass.
DryRunMsg(violationMsg) == "[DRY-RUN] Violation detected but allowed: " \o violationMsg

\* fmt.Errorf("failed to list existing pods: %v", err)
ListPodsError == "failed to list existing pods: " \o ClientError

\* Recorder.Event(activeBudget, "Warning", reason, message)
WarningEvent(activeBudget, reason, message) ==
    [object |-> activeBudget.name, type |-> "Warning", reason |-> reason,
     message |-> message]

\* The CPU check's condition with the boundary on the wrong side.
CpuExceededOrReached(totalCpuAfter, limitCpuMilli) == totalCpuAfter >= limitCpuMilli

\* The CPU check's condition.
CpuExceeded(totalCpuAfter, limitCpuMilli) == totalCpuAfter > limitCpuMilli

\* The memory check's condition.
MemExceeded(totalMemAfter, limitMemBytes) == totalMemAfter > limitMemBytes

\* A response without side effects: the error returned ("" is nil).
Respond(err) == [err |-> err, events |-> <<>>, warnings |-> <<>>, rejected |-> 0, saved |-> 0]

\* Listing the budgets fails and the Pod is refused.
ListBudgetsFailClosed == Respond("failed to list budgets: " \o ClientError)

\* The response when listing the budgets fails: fail-open.
ListBudgetsFailed == Respond("")

\* Listing the existing Pods fails and the Pod is let through.
ListPodsFailOpen == Respond("")

\* The response when listing the existing Pods fails.
ListPodsFailed == Respond(ListPodsError)

\* The CPU violation branch in DryRun mode.
CpuDryRun(activeBudget, violationMsg, newPodCpuCost) ==
    [err |-> "",
     events |-> <<WarningEvent(activeBudget, "DryRunViolation", DryRunMsg(violationMsg))>>,
     warnings |-> <<>>, rejected |-> 1, saved |-> 0]

\* The CPU violation branch in Enforce mode, forgetting the saved-CPU counter.
CpuEnforceNoSaving(activeBudget, violationMsg, newPodCpuCost) ==
    [err |-> violationMsg,
     events |-> <<WarningEvent(activeBudget, "BudgetExceeded", violationMsg)>>,
     warnings |-> <<>>, rejected |-> 1, saved |-> 0]

\* The CPU violation branch in Enforce mode.
CpuEnforce(activeBudget, violationMsg, newPodCpuCost) ==
    [err |-> violationMsg,
     events |-> <<WarningEvent(activeBudget, "BudgetExceeded", violationMsg)>>,
     warnings |-> <<>>, rejected |-> 1, saved |-> newPodCpuCost]

\* The memory violation branch in DryRun mode.
MemDryRun(activeBudget, violationMsg) ==
    [err |-> "",
     events |-> <<WarningEvent(activeBudget, "DryRunViolation", DryRunMsg(violationMsg))>>,
     warnings |-> <<>>, rejected |-> 1, saved |-> 0]

\* The memory violation branch in Enforce mode, without the event.
MemEnforceSilent(activeBudget, violationMsg) ==
    [err |-> violationMsg, events |-> <<>>, warnings |-> <<>>, rejected |-> 0, saved |-> 0]

\* The memory violation branch in Enforce mode.
MemEnforce(activeBudget, violationMsg) ==
    [err |-> violationMsg,
     events |-> <<WarningEvent(activeBudget, "BudgetExceeded", violationMsg)>>,
     warnings |-> <<>>, rejected |-> 0, saved |-> 0]

\* Step 5 of ValidateCreate: the memory check.
MemoryCheck(activeBudget, namespace, currentMemUsage, newPodMemCost) ==
    IF activeBudget.maxMemoryLimit = <<>> THEN Respond("")
    ELSE LET parsed == ParseQuantity(activeBudget.maxMemoryLimit)
             limitMemBytes == Value(parsed.q)
             totalMemAfter == currentMemUsage + newPodMemCost
             violationMsg == MemViolationMsg(namespace, currentMemUsage,
                                             limitMemBytes, newPodMemCost)
         IN  IF parsed.err THEN Respond("")
             ELSE IF MemExceeded(totalMemAfter, limitMemBytes)
             THEN IF activeBudget.validationMode = DryRunMode
                  THEN MemDryRun(activeBudget, violationMsg)
                  ELSE MemEnforce(activeBudget, violationMsg)
             ELSE Respond("")

\* The two checks in the other order: memory first, CPU when memory passes.
EnforcementMemoryFirst(activeBudget, namespace, current, newPodCpuCost, newPodMemCost) ==
    LET limitCpuMilli == MilliValue(ParseQuantity(activeBudget.maxCpuLimit).q)
        totalCpuAfter == current.cpu + newPodCpuCost
        violationMsg == CpuViolationMsg(namespace, current.cpu, limitCpuMilli,
                                        newPodCpuCost)
        memory == MemoryCheck(activeBudget, namespace, current.mem, newPodMemCost)
    IN  IF memory.events # <<>> THEN memory
        ELSE IF CpuExceeded(totalCpuAfter, limitCpuMilli)
        THEN IF activeBudget.validationMode = DryRunMode
             THEN CpuDryRun(activeBudget, violationMsg, newPodCpuCost)
             ELSE CpuEnforce(activeBudget, violationMsg, newPodCpuCost)
        ELSE memory

\* The checks run on the usage the Budget's status reports, not on the live one.
EnforcementOnSnapshot(activeBudget, namespace, current, newPodCpuCost, newPodMemCost) ==
    LET limitCpuMilli == MilliValue(ParseQuantity(activeBudget.maxCpuLimit).q)
        snapshot == MilliValue(ParseQuantity(activeBudget.status.currentCpuUsage).q)
        totalCpuAfter == snapshot + newPodCpuCost
        violationMsg == CpuViolationMsg(namespace, snapshot, limitCpuMilli,
                                        newPodCpuCost)
    IN  IF CpuExceeded(totalCpuAfter, limitCpuMilli)
        THEN IF activeBudget.validationMode = DryRunMode
             THEN CpuDryRun(activeBudget, violationMsg, newPodCpuCost)
             ELSE CpuEnforce(activeBudget, violationMsg, newPodCpuCost)
        ELSE MemoryCheck(activeBudget, namespace, current.mem, newPodMemCost)

\* Step 4 of ValidateCreate, the CPU check, followed by the memory check.
Enforcement(activeBudget, namespace, current, newPodCpuCost, newPodMemCost) ==
    LET limitCpuMilli == MilliValue(ParseQuantity(activeBudget.maxCpuLimit).q)
        totalCpuAfter == current.cpu + newPodCpuCost
        violationMsg == CpuViolationMsg(namespace, current.cpu, limitCpuMilli,
                                        newPodCpuCost)
    IN  IF CpuExceeded(totalCpuAfter, limitCpuMilli)
        THEN IF activeBudget.validationMode = DryRunMode
             THEN CpuDryRun(activeBudget, violationMsg, newPodCpuCost)
             ELSE CpuEnforce(activeBudget, violationMsg, newPodCpuCost)
        ELSE MemoryCheck(activeBudget, namespace, current.mem, newPodMemCost)

\* ValidateCreate(ctx, obj) where Client.List returns the budgets items, and
\* listing budgets and Pods succeeds as given: the error it returns ("" is nil;
\* the warnings are always nil), the events it records, and what it adds to
\* the counters of the Pod's namespace.
ValidateCreateOn(items, obj, budgetsOk, podsOk) ==
    IF obj.kind # "Pod" THEN Respond(NotAPodError(obj))
    ELSE IF ~budgetsOk THEN ListBudgetsFailed
    ELSE LET activeBudget == FirstMatch(items, obj.namespace)
         IN  IF activeBudget = NoBudget THEN Respond("")
             ELSE IF ~podsOk THEN ListPodsFailed
             ELSE Enforcement(activeBudget, obj.namespace,
                              ExistingUsage(InNamespace(obj.namespace)),
                              SumCpu(obj.containers), SumMemory(obj.containers))

\* ValidateCreate(ctx, obj) in the current state of the cluster.
ValidateCreateCall(obj, budgetsOk, podsOk) == ValidateCreateOn(budgets, obj, budgetsOk, podsOk)

\* ValidateUpdate deciding on the new object as ValidateCreate would.
ValidateUpdateAsCreate(oldObj, newObj) == ValidateCreateCall(newObj, TRUE, TRUE)

\* ValidateUpdate(ctx, oldObj, newObj): nil, nil.
ValidateUpdateCall(oldObj, newObj) == Respond("")

\* ValidateDelete(ctx, obj): nil, nil.
ValidateDeleteCall(obj) == Respond("")

-----------------------------------------------------------------------------
(* The state machine. *)

\* b with one more copy of e, and with one copy of e less.
BagAdd(b, e) == b (+) SetToBag({e})
BagRemove(b, e) == b (-) SetToBag({e})

\* The request q of the bag req replaced by the request q2.
Replace(q, q2) == BagAdd(BagRemove(req, q), q2)

Init ==
    /\ budgets \in BudgetLists
    /\ pods = EmptyBag
    /\ req = EmptyBag
    /\ rejectedPods = [n \in Namespaces |-> 0]
    /\ savedCpu = [n \in Namespaces |-> 0]
    /\ events = <<>>

\* The API server receives a creation request for obj and starts the admission chain.
Submit(obj) ==
    /\ BagCardinality(req) + BagCardinality(pods) < MaxReq
    /\ req' = BagAdd(req, [pc |-> "mutate", obj |-> obj, err |-> ""])
    /\ UNCHANGED <<budgets, pods, rejectedPods, savedCpu, events>>

\* The mutating webhook handles request q, with Client.List succeeding as given;
\* an error rejects the request.
DefaultStep(q, budgetsOk, podsOk) ==
    /\ BagIn(q, req)
    /\ q.pc = "mutate"
    /\ LET res == DefaultCall(q.obj, budgetsOk, podsOk)
       IN  /\ req' = Replace(q, [pc |-> IF res.err = "" THEN "validate" ELSE "rejected",
                                 obj |-> res.obj, err |-> res.err])
           /\ events' = events \o res.events
    /\ UNCHANGED <<budgets, pods, rejectedPods, savedCpu>>

Default(q) == \E budgetsOk \in BOOLEAN, podsOk \in BOOLEAN : DefaultStep(q, budgetsOk, podsOk)

\* The validating webhook with every violation counted under every namespace.
ValidateCreateStepAllScopes(q, budgetsOk, podsOk) ==
    /\ BagIn(q, req)
    /\ q.pc = "validate"
    /\ LET res == ValidateCreateCall(q.obj, budgetsOk, podsOk)
       IN  /\ req' = Replace(q, [pc |-> IF res.err = "" THEN "admitted" ELSE "rejected",
                                 obj |-> q.obj, err |-> res.err])
           /\ events' = events \o res.events
           /\ rejectedPods' = [n \in Namespaces |-> rejectedPods[n] + res.rejected]
           /\ savedCpu' = [n \in Namespaces |-> savedCpu[n] + res.saved]
    /\ UNCHANGED <<budgets, pods>>

\* The validating webhook handles request q, with Client.List succeeding as given;
\* an error rejects the request.
ValidateCreateStep(q, budgetsOk, podsOk) ==
    /\ BagIn(q, req)
    /\ q.pc = "validate"
    /\ LET res == ValidateCreateCall(q.obj, budgetsOk, podsOk)
           ns == q.obj.namespace
       IN  /\ req' = Replace(q, [pc |-> IF res.err = "" THEN "admitted" ELSE "rejected",
                                 obj |-> q.obj, err |-> res.err])
           /\ events' = events \o res.events
           /\ rejectedPods' = [rejectedPods EXCEPT ![ns] = @ + res.rejected]
           /\ savedCpu' = [savedCpu EXCEPT ![ns] = @ + res.saved]
    /\ UNCHANGED <<budgets, pods>>

ValidateCreate(q) ==
    \E budgetsOk \in BOOLEAN, podsOk \in BOOLEAN : ValidateCreateStep(q, budgetsOk, podsOk)

\* The API server persists the Pod of an admitted request.
CreatePod(q) ==
    /\ BagIn(q, req)
    /\ q.pc = "admitted"
    /\ pods' = BagAdd(pods, q.obj)
    /\ req' = BagRemove(req, q)
    /\ UNCHANGED <<budgets, rejectedPods, savedCpu, events>>

\* The kubelet reports a new phase of a Pod that has not terminated.
SetPhase(p, phase) ==
    /\ BagIn(p, pods)
    /\ p.phase \in {PodPending, PodRunning}
    /\ p.phase # phase
    /\ pods' = BagAdd(BagRemove(pods, p), [p EXCEPT !.phase = phase])
    /\ UNCHANGED <<budgets, req, rejectedPods, savedCpu, events>>

Next ==
    \/ \E obj \in Objects : Submit(obj)
    \/ \E q \in BagToSet(req) : Default(q)
    \/ \E q \in BagToSet(req) : ValidateCreate(q)
    \/ \E q \in BagToSet(req) : CreatePod(q)
    \/ \E p \in BagToSet(pods), phase \in {PodRunning, PodSucceeded, PodFailed} :
          SetPhase(p, phase)

Spec == Init /\ [][Next]_vars

-----------------------------------------------------------------------------
(* The controller, which writes the status of the budgets while the webhooks *)
(* decide: ProjectBudgetReconciler.Reconcile.                                *)

\* The character of the digit d.
DigitChar(d) == CHOOSE c \in DigitChars : DigitVal(c) = d

\* fmt.Sprintf("%d", n) for n >= 0.
RECURSIVE FormatInt(_)
FormatInt(n) ==
    IF n < 10 THEN <<DigitChar(n)>> ELSE FormatInt(n \div 10) \o <<DigitChar(n % 10)>>

\* fmt.Sprintf("%dm", totalCpuUsage)
FormatMilli(totalCpuUsage) == FormatInt(totalCpuUsage) \o <<"m">>

\* Reconcile's sum of the CPU limits of the containers of all the Pods among
\* items, whatever their phase.
RECURSIVE totalCpuUsage(_)
totalCpuUsage(items) ==
    IF items = {} THEN 0
    ELSE LET p == CHOOSE x \in items : TRUE
         IN  totalCpuUsage(items \ {p}) + CopiesIn(p, pods) * SumCpu(p.containers)

\* Reconcile of the budget projectBudget, where listing the Pods and updating
\* the status succeed as given: the budget as the API server holds it afterwards.
ReconcileCall(projectBudget, podsOk, updateOk) ==
    IF ~podsOk THEN projectBudget
    ELSE IF ParseQuantity(projectBudget.maxCpuLimit).err THEN projectBudget
    ELSE IF ~updateOk THEN projectBudget
    ELSE [projectBudget EXCEPT
            !.status = [currentCpuUsage |->
                            FormatMilli(totalCpuUsage(InNamespace(projectBudget.teamName))),
                        lastCheckTime |-> "Just Now"]]

\* The controller reconciles the i-th budget.
ReconcileStep(i, podsOk, updateOk) ==
    /\ i \in 1..Len(budgets)
    /\ budgets' = [budgets EXCEPT ![i] = ReconcileCall(budgets[i], podsOk, updateOk)]
    /\ UNCHANGED <<pods, req, rejectedPods, savedCpu, events>>

Reconcile(i) == \E podsOk \in BOOLEAN, updateOk \in BOOLEAN : ReconcileStep(i, podsOk, updateOk)

\* The Pods users ask to create while the controller runs: those of team-beta
\* that ask for 300m or 400m of CPU.
ReconciledPods ==
    {p \in IncomingPods : p.namespace = "team-beta" /\ SumCpu(p.containers) \in {300, 400}}

InitReconciled ==
    /\ budgets \in {<<Budget("beta-budget", s)>> : s \in BudgetSpecs}
    /\ pods = EmptyBag
    /\ req = EmptyBag
    /\ rejectedPods = [n \in Namespaces |-> 0]
    /\ savedCpu = [n \in Namespaces |-> 0]
    /\ events = <<>>

NextReconciled ==
    \/ \E obj \in ReconciledPods : Submit(obj)
    \/ \E q \in BagToSet(req) : Default(q)
    \/ \E q \in BagToSet(req) : ValidateCreate(q)
    \/ \E q \in BagToSet(req) : CreatePod(q)
    \/ \E p \in BagToSet(pods), phase \in {PodRunning, PodSucceeded, PodFailed} :
          SetPhase(p, phase)
    \/ \E i \in 1..Len(budgets) : Reconcile(i)

SpecReconciled == InitReconciled /\ [][NextReconciled]_vars

-----------------------------------------------------------------------------
(* A cluster in which several budgets name the same team: nothing keeps     *)
(* Spec.TeamName unique among the ProjectBudgets.                            *)

SmallerCpu == <<"2", "0", "0", "m">>

\* Two budgets of team-beta that differ in name, CPU limit and mode, the
\* stricter one listed second.
FirstBudget(validationMode) ==
    Budget("beta-first", [teamName |-> "team-beta", maxCpuLimit |-> WellFormedCpu,
                          maxMemoryLimit |-> <<>>, validationMode |-> validationMode])
SecondBudget(validationMode) ==
    Budget("beta-second", [teamName |-> "team-beta", maxCpuLimit |-> SmallerCpu,
                           maxMemoryLimit |-> WellFormedMemory,
                           validationMode |-> validationMode])

\* A budget of another team.
AlphaBudget ==
    Budget("alpha-budget", [teamName |-> "team-alpha", maxCpuLimit |-> SmallerCpu,
                            maxMemoryLimit |-> <<>>, validationMode |-> EnforceMode])

\* The listings with duplicates: the two budgets of team-beta in either
\* assignment of the modes, alone or behind the budget of another team.
DuplicateLists ==
    { <<FirstBudget(EnforceMode), SecondBudget(DryRunMode)>>,
      <<FirstBudget(DryRunMode), SecondBudget(EnforceMode)>>,
      <<AlphaBudget, FirstBudget(EnforceMode), SecondBudget(DryRunMode)>> }

InitDuplicates ==
    /\ budgets \in DuplicateLists
    /\ pods = EmptyBag
    /\ req = EmptyBag
    /\ rejectedPods = [n \in Namespaces |-> 0]
    /\ savedCpu = [n \in Namespaces |-> 0]
    /\ events = <<>>

SpecDuplicates == InitDuplicates /\ [][Next]_vars

-----------------------------------------------------------------------------
(* Updates and deletions of persisted Pods.  Both webhooks are registered    *)
(* for the verbs create and update: an update passes Default and then        *)
(* ValidateUpdate before the API server persists it.                         *)

\* The CPU limit a user scales the first container of a Pod up to.
ScaledCpu == 600

\* What a user may ask to change of the persisted Pod p: the CPU limit of its
\* first container, scaled up vertically.
ScaledUp(p) ==
    IF Len(p.containers) > 0 /\ Cpu(p.containers[1].limits) < ScaledCpu
    THEN {[p EXCEPT !.containers[1].limits = MapSet(@, "cpu", ScaledCpu)]}
    ELSE {}

\* The admission of the update of the persisted Pod oldObj to newObj, with
\* Client.List succeeding as given in Default: the mutating webhook, then the
\* validating webhook, then the API server persists what they let through.
UpdatePodStep(oldObj, newObj, budgetsOk, podsOk) ==
    /\ BagIn(oldObj, pods)
    /\ Len(events) < MaxEvents
    /\ LET mutated == DefaultCall(newObj, budgetsOk, podsOk)
           res == ValidateUpdateCall(oldObj, mutated.obj)
           allowed == mutated.err = "" /\ res.err = ""
           ns == newObj.namespace
       IN  /\ pods' = IF allowed THEN BagAdd(BagRemove(pods, oldObj), mutated.obj) ELSE pods
           /\ events' = events \o mutated.events \o res.events
           /\ rejectedPods' = [rejectedPods EXCEPT ![ns] = @ + res.rejected]
           /\ savedCpu' = [savedCpu EXCEPT ![ns] = @ + res.saved]
    /\ UNCHANGED <<budgets, req>>

UpdatePod(oldObj, newObj) ==
    \E budgetsOk \in BOOLEAN, podsOk \in BOOLEAN : UpdatePodStep(oldObj, newObj, budgetsOk, podsOk)

\* The deletion of the persisted Pod obj, which ValidateDelete lets through.
DeletePod(obj) ==
    /\ BagIn(obj, pods)
    /\ Len(events) < MaxEvents
    /\ LET res == ValidateDeleteCall(obj)
           ns == obj.namespace
       IN  /\ pods' = IF res.err = "" THEN BagRemove(pods, obj) ELSE pods
           /\ events' = events \o res.events
           /\ rejectedPods' = [rejectedPods EXCEPT ![ns] = @ + res.rejected]
           /\ savedCpu' = [savedCpu EXCEPT ![ns] = @ + res.saved]
    /\ UNCHANGED <<budgets, req>>

\* The Pods users ask to create in a cluster whose Pods are updated and
\* deleted: those of team-beta with one container asking for 300m, or for
\* 400m and no memory.
UpdatedPods ==
    {p \in IncomingPods : /\ p.namespace = "team-beta"
                          /\ Len(p.containers) = 1
                          /\ \/ SumCpu(p.containers) = 300
                             \/ SumCpu(p.containers) = 400 /\ SumMemory(p.containers) = 0}

InitUpdates ==
    /\ budgets = <<Budget("beta-budget",
                          [teamName |-> "team-beta", maxCpuLimit |-> WellFormedCpu,
                           maxMemoryLimit |-> WellFormedMemory,
                           validationMode |-> EnforceMode])>>
    /\ pods = EmptyBag
    /\ req = EmptyBag
    /\ rejectedPods = [n \in Namespaces |-> 0]
    /\ savedCpu = [n \in Namespaces |-> 0]
    /\ events = <<>>

NextUpdates ==
    \/ \E obj \in UpdatedPods : Submit(obj)
    \/ \E q \in BagToSet(req) : Default(q)
    \/ \E q \in BagToSet(req) : ValidateCreate(q)
    \/ \E q \in BagToSet(req) : CreatePod(q)
    \/ \E p \in BagToSet(pods) : \E newObj \in ScaledUp(p) : UpdatePod(p, newObj)
    \/ \E p \in BagToSet(pods) : DeletePod(p)
    \/ \E p \in BagToSet(pods), phase \in {PodRunning, PodSucceeded, PodFailed} :
          SetPhase(p, phase)

SpecUpdates == InitUpdates /\ [][NextUpdates]_vars

-----------------------------------------------------------------------------
(* Sequential admission: the API server hands a request to ValidateCreate    *)
(* only when every Pod admitted before has been persisted, in a cluster      *)
(* whose budget is in Enforce mode with a well-formed CPU limit and whose    *)
(* Pods may be updated.                                                      *)

\* The budget lists of such a cluster.
SequentialLists ==
    {<<Budget("beta-budget", s)>> :
        s \in {t \in BudgetSpecs : /\ t.validationMode = EnforceMode
                                   /\ t.maxCpuLimit = WellFormedCpu}}

InitSequential ==
    /\ budgets \in SequentialLists
    /\ pods = EmptyBag
    /\ req = EmptyBag
    /\ rejectedPods = [n \in Namespaces |-> 0]
    /\ savedCpu = [n \in Namespaces |-> 0]
    /\ events = <<>>

\* Whether no admitted Pod awaits its creation.
AllPersisted == \A r \in BagToSet(req) : r.pc # "admitted"

NextSequential ==
    \/ \E obj \in UpdatedPods : Submit(obj)
    \/ \E q \in BagToSet(req) : Default(q)
    \/ \E q \in BagToSet(req) : AllPersisted /\ ValidateCreate(q)
    \/ \E q \in BagToSet(req) : CreatePod(q)
    \/ \E p \in BagToSet(pods) : \E newObj \in ScaledUp(p) : UpdatePod(p, newObj)
    \/ \E p \in BagToSet(pods), phase \in {PodRunning, PodSucceeded, PodFailed} :
          SetPhase(p, phase)

SpecSequential == InitSequential /\ [][NextSequential]_vars

-----------------------------------------------------------------------------
(* What the properties below speak of, stated on the cluster state itself. *)

\* Whether the persisted Pod p is in namespace ns and in a non-terminal phase.
Active(p, ns) == p.namespace = ns /\ p.phase \notin {"Succeeded", "Failed"}

\* The CPU ceiling of a container in millicores (0 when none is declared).
CeilingCpu(c) == IF "cpu" \in DOMAIN c.limits THEN c.limits["cpu"] ELSE 0

\* The memory ceiling of a container in bytes (0 when none is declared).
CeilingMem(c) == IF "memory" \in DOMAIN c.limits THEN c.limits["memory"] ELSE 0

\* The CPU cost of a workload: the sum of its containers' CPU ceilings.
RECURSIVE CostCpuFrom(_, _)
CostCpuFrom(p, i) ==
    IF i > Len(p.containers) THEN 0 ELSE CeilingCpu(p.containers[i]) + CostCpuFrom(p, i + 1)
CostCpu(p) == CostCpuFrom(p, 1)

\* The memory cost of a workload: the sum of its containers' memory ceilings.
RECURSIVE CostMemFrom(_, _)
CostMemFrom(p, i) ==
    IF i > Len(p.containers) THEN 0 ELSE CeilingMem(p.containers[i]) + CostMemFrom(p, i + 1)
CostMem(p) == CostMemFrom(p, 1)

\* The CPU cost of the persisted Pods ps, each as often as the cluster holds it.
RECURSIVE TotalCpu(_)
TotalCpu(ps) ==
    IF ps = {} THEN 0
    ELSE LET p == CHOOSE x \in ps : TRUE
         IN  pods[p] * CostCpu(p) + TotalCpu(ps \ {p})

\* The memory cost of the persisted Pods ps, each as often as the cluster holds it.
RECURSIVE TotalMem(_)
TotalMem(ps) ==
    IF ps = {} THEN 0
    ELSE LET p == CHOOSE x \in ps : TRUE
         IN  pods[p] * CostMem(p) + TotalMem(ps \ {p})

\* The live CPU usage of scope ns: the cost of its active workloads.
UsedCpu(ns) == TotalCpu({p \in DOMAIN pods : Active(p, ns)})

\* The live memory usage of scope ns.
UsedMem(ns) == TotalMem({p \in DOMAIN pods : Active(p, ns)})

\* Whether some Budget has teamName ns.
HasBudget(ns) == \E i \in DOMAIN budgets : budgets[i].teamName = ns

\* The Budget resolved for scope ns: the first of the listing with that teamName.
Resolved(ns) ==
    budgets[CHOOSE i \in DOMAIN budgets :
                /\ budgets[i].teamName = ns
                /\ \A j \in DOMAIN budgets : j < i => budgets[j].teamName # ns]

\* The limits the well-formed limit strings stand for: "500m" and "4Mi".
CpuLimitMillis == 500
MemLimitBytes == 4 * 1024 * 1024

\* Whether the Budget's CPU limit is the well-formed one.
CpuLimitParses(b) == b.maxCpuLimit = <<"5", "0", "0", "m">>

\* Whether the Budget sets a memory limit, and a well-formed one.
MemLimitSet(b) == b.maxMemoryLimit # <<>>
MemLimitParses(b) == b.maxMemoryLimit = <<"4", "M", "i">>

\* Whether the workload p, added to the live usage of its scope, violates the CPU limit.
CpuViolation(p) == UsedCpu(p.namespace) + CostCpu(p) > CpuLimitMillis

\* Whether the workload p, added to the live usage of its scope, violates the memory limit.
MemViolation(p) == UsedMem(p.namespace) + CostMem(p) > MemLimitBytes

\* The outcomes of a decision on request q, read off the step that made it.
Allowed(q) ==
    /\ req' = Replace(q, [pc |-> "admitted", obj |-> q.obj, err |-> ""])
    /\ events' = events

Denied(q) ==
    \E q2 \in BagToSet(req') :
        /\ req' = Replace(q, q2)
        /\ q2.pc = "rejected" /\ q2.obj = q.obj /\ q2.err # ""

AllowedWithWarning(q) ==
    /\ req' = Replace(q, [pc |-> "admitted", obj |-> q.obj, err |-> ""])
    /\ Len(events') = Len(events) + 1
    /\ events'[Len(events')].type = "Warning"

\* Whether request q holds a workload (a Pod) whose scope resolves to a Budget
\* with a well-formed CPU limit.
Budgeted(q) ==
    /\ q.obj.kind = "Pod"
    /\ HasBudget(q.obj.namespace)
    /\ CpuLimitParses(Resolved(q.obj.namespace))

-----------------------------------------------------------------------------
(* C1 *)

\* C1: for a scope with a resolved Budget and a successful usage enumeration,
\* ValidateCreate allows the workload whenever current CPU usage plus incoming
\* CPU cost is at most the limit (the sum equal to the limit included) and no
\* memory violation exists; when the sum is greater it denies in Enforce mode
\* and allows with a warning in DryRun mode.
C1_Decide ==
    [][\A q \in BagToSet(req) :
          (ValidateCreateStep(q, TRUE, TRUE) /\ Budgeted(q)) =>
             LET p == q.obj
                 b == Resolved(p.namespace)
             IN  /\ (~CpuViolation(p)
                       /\ (~MemLimitSet(b) \/ (MemLimitParses(b) /\ ~MemViolation(p))))
                      => Allowed(q)
                 /\ (CpuViolation(p) /\ b.validationMode = "Enforce") => Denied(q)
                 /\ (CpuViolation(p) /\ b.validationMode = "DryRun")
                      => AllowedWithWarning(q)]_vars

\* A workload admitted in Enforce mode whose cost brings the usage to the limit exactly.
C1_Witness ==
    \E q \in BagToSet(req) :
        /\ q.pc = "admitted"
        /\ Budgeted(q)
        /\ Resolved(q.obj.namespace).validationMode = "Enforce"
        /\ UsedCpu(q.obj.namespace) + CostCpu(q.obj) = CpuLimitMillis

-----------------------------------------------------------------------------
(* C2 *)

\* Whether the decision on workload p under the Budget b finds a violation on
\* memory only: the CPU check passes and the memory limit is set and exceeded.
MemOnlyViolation(p, b) == ~CpuViolation(p) /\ MemLimitParses(b) /\ MemViolation(p)

\* C2: every violating decision, on CPU or on memory only, in Enforce mode or
\* in DryRun mode, adds exactly 1 to the rejection counter of the workload's scope.
C2_RejectedOnEveryViolation ==
    [][\A q \in BagToSet(req) :
          (/\ ValidateCreateStep(q, TRUE, TRUE)
           /\ Budgeted(q)
           /\ CpuViolation(q.obj) \/ MemOnlyViolation(q.obj, Resolved(q.obj.namespace)))
            => rejectedPods' = [rejectedPods EXCEPT ![q.obj.namespace] = @ + 1]]_vars

-----------------------------------------------------------------------------
(* C3 *)

\* C3 as claimed: each decision for scope S that finds a CPU violation, in
\* Enforce mode or in DryRun mode alike, adds the workload's incoming CPU cost
\* to the saved-CPU counter of S.
C3_SavedOnEveryCpuViolation ==
    [][\A q \in BagToSet(req) :
          (ValidateCreateStep(q, TRUE, TRUE) /\ Budgeted(q) /\ CpuViolation(q.obj))
            => savedCpu' = [savedCpu EXCEPT ![q.obj.namespace] = @ + CostCpu(q.obj)]]_vars

\* The CPU limit the decision compares with: a limit string that does not
\* parse counts as 0m.
CpuLimitOf(b) == IF CpuLimitParses(b) THEN CpuLimitMillis ELSE 0

\* Whether a step is a decision that denies request q for a CPU violation in Enforce mode.
CpuDenial(q, budgetsOk, podsOk) ==
    /\ ValidateCreateStep(q, budgetsOk, podsOk)
    /\ budgetsOk /\ podsOk
    /\ q.obj.kind = "Pod"
    /\ HasBudget(q.obj.namespace)
    /\ UsedCpu(q.obj.namespace) + CostCpu(q.obj) > CpuLimitOf(Resolved(q.obj.namespace))
    /\ Resolved(q.obj.namespace).validationMode = "Enforce"

\* C3, amended: the saved-CPU counter of scope S grows by the incoming CPU cost
\* of each workload denied for a CPU violation in Enforce mode (a CPU limit
\* that does not parse counting as 0m), and by nothing else: a CPU violation in
\* DryRun mode, and every other step, leaves it as it is.  After N decisions it
\* is the sum of the costs of the workloads so denied.
C3_SavedOnCpuDenialOnly ==
    [][/\ \A q \in BagToSet(req) :
             \A budgetsOk \in BOOLEAN, podsOk \in BOOLEAN :
                ValidateCreateStep(q, budgetsOk, podsOk) =>
                   savedCpu' = [savedCpu EXCEPT ![q.obj.namespace] =
                                   @ + (IF CpuDenial(q, budgetsOk, podsOk)
                                        THEN CostCpu(q.obj) ELSE 0)]
       /\ (\A q \in BagToSet(req) : ~ValidateCreate(q)) => savedCpu' = savedCpu]_vars

\* A 400m workload denied in Enforce mode against 300m of usage and a 500m
\* limit: the counter holds its cost.
C3_Witness ==
    \E q \in BagToSet(req) :
        /\ q.pc = "rejected"
        /\ Budgeted(q)
        /\ Resolved(q.obj.namespace).validationMode = "Enforce"
        /\ UsedCpu(q.obj.namespace) = 300
        /\ CostCpu(q.obj) = 400
        /\ savedCpu[q.obj.namespace] = 400

-----------------------------------------------------------------------------
(* C4 *)

\* C4: when no Budget has teamName equal to the workload's scope, ValidateCreate
\* allows every workload, whatever its cost and the usage of the scope and
\* whether or not the listings succeed, changes no counter and emits no event.
C4_NoBudgetAllows ==
    [][\A q \in BagToSet(req) :
          \A budgetsOk \in BOOLEAN, podsOk \in BOOLEAN :
             (/\ ValidateCreateStep(q, budgetsOk, podsOk)
              /\ q.obj.kind = "Pod"
              /\ ~HasBudget(q.obj.namespace))
               => /\ Allowed(q)
                  /\ rejectedPods' = rejectedPods
                  /\ savedCpu' = savedCpu]_vars

\* A workload costing more than another scope's whole budget, admitted in a
\* scope without a Budget.
C4_Witness ==
    \E q \in BagToSet(req) :
        /\ q.pc = "admitted"
        /\ ~HasBudget(q.obj.namespace)
        /\ budgets # <<>>
        /\ CostCpu(q.obj) > CpuLimitMillis

-----------------------------------------------------------------------------
(* C5 *)

\* What is left of the CPU budget of scope ns, the limit being well-formed.
Remaining(ns) == CpuLimitMillis - UsedCpu(ns)

\* Whether the workload p carries the opt-in annotation auto-resize = "true".
HasOptIn(p) ==
    /\ "finops.acasa.acme/auto-resize" \in DOMAIN p.annotations
    /\ p.annotations["finops.acasa.acme/auto-resize"] = "true"

\* C5: for an opted-in workload in a scope with a Budget and remaining > 0, the
\* workload the Auto-Sizer returns never has a first-container CPU ceiling above
\* remaining; a ceiling above remaining is set to remaining exactly, and a
\* workload whose ceiling is at most remaining is left as it is.
C5_Clamp ==
    [][\A q \in BagToSet(req) :
          (/\ DefaultStep(q, TRUE, TRUE)
           /\ Budgeted(q)
           /\ HasOptIn(q.obj)
           /\ Remaining(q.obj.namespace) > 0
           /\ Len(q.obj.containers) > 0)
            => \E q2 \in BagToSet(req') :
                  /\ req' = Replace(q, q2)
                  /\ q2.pc = "validate"
                  /\ Len(q2.obj.containers) = Len(q.obj.containers)
                  /\ CeilingCpu(q2.obj.containers[1]) <= Remaining(q.obj.namespace)
                  /\ CeilingCpu(q.obj.containers[1]) > Remaining(q.obj.namespace)
                       => CeilingCpu(q2.obj.containers[1]) = Remaining(q.obj.namespace)
                  /\ CeilingCpu(q.obj.containers[1]) <= Remaining(q.obj.namespace)
                       => q2.obj = q.obj]_vars

\* An opted-in workload whose 400m ceiling the Auto-Sizer has set to the 200m
\* that 300m of usage leave.
C5_Witness ==
    \E q \in BagToSet(req) :
        /\ q.pc = "validate"
        /\ Budgeted(q)
        /\ HasOptIn(q.obj)
        /\ UsedCpu(q.obj.namespace) = 300
        /\ Len(q.obj.containers) > 0
        /\ CeilingCpu(q.obj.containers[1]) = 200
        /\ "finops.acasa.acme/resized" \in DOMAIN q.obj.annotations

-----------------------------------------------------------------------------
(* C6 *)

\* C6: a workload without the annotation auto-resize = "true" (absent, or any
\* other value) leaves the Auto-Sizer as it came, with no event and no error,
\* whatever the budgets, the usage and the outcome of the listings.
C6_NoOptInNoChange ==
    [][\A q \in BagToSet(req) :
          \A budgetsOk \in BOOLEAN, podsOk \in BOOLEAN :
             (DefaultStep(q, budgetsOk, podsOk) /\ q.obj.kind = "Pod" /\ ~HasOptIn(q.obj))
               => /\ req' = Replace(q, [pc |-> "validate", obj |-> q.obj, err |-> ""])
                  /\ events' = events]_vars

\* A workload annotated auto-resize = "false" that has passed the Auto-Sizer
\* unchanged although its ceiling exceeds what is left of the budget.
C6_Witness ==
    \E q \in BagToSet(req) :
        /\ q.pc = "validate"
        /\ Budgeted(q)
        /\ "finops.acasa.acme/auto-resize" \in DOMAIN q.obj.annotations
        /\ ~HasOptIn(q.obj)
        /\ Remaining(q.obj.namespace) > 0
        /\ Len(q.obj.containers) > 0
        /\ CeilingCpu(q.obj.containers[1]) > Remaining(q.obj.namespace)
        /\ events = <<>>

-----------------------------------------------------------------------------
(* C7 *)

\* Whether the workload p violates no memory limit of the Budget b.
NoMemViolation(p, b) == ~MemLimitSet(b) \/ (MemLimitParses(b) /\ ~MemViolation(p))

\* Whether request q awaits the Auto-Sizer with an opted-in single-container
\* workload, in an Enforce-mode scope, whose CPU ceiling exceeds remaining > 0
\* and which violates no memory limit.
Rescuable(q) ==
    /\ q.pc = "mutate"
    /\ Budgeted(q)
    /\ HasOptIn(q.obj)
    /\ Resolved(q.obj.namespace).validationMode = "Enforce"
    /\ Len(q.obj.containers) = 1
    /\ Remaining(q.obj.namespace) > 0
    /\ CeilingCpu(q.obj.containers[1]) > Remaining(q.obj.namespace)
    /\ NoMemViolation(q.obj, Resolved(q.obj.namespace))

\* C7: mutate, then validate, on an unchanged cluster state: for such a
\* workload the Auto-Sizer rewrites the ceiling to remaining, and ValidateCreate
\* on the rewritten workload, in the same state, allows it.
C7_MutateThenValidate ==
    \A q \in BagToSet(req) :
        Rescuable(q) =>
            LET mutated == DefaultCall(q.obj, TRUE, TRUE)
                decided == ValidateCreateCall(mutated.obj, TRUE, TRUE)
            IN  /\ mutated.err = ""
                /\ CeilingCpu(mutated.obj.containers[1]) = Remaining(q.obj.namespace)
                /\ decided.err = ""
                /\ decided.events = <<>>
                /\ decided.rejected = 0

\* Limit 500m, usage 300m: the request for 400m, rewritten to 200m, is admitted.
C7_Witness ==
    \E q \in BagToSet(req) :
        /\ q.pc = "admitted"
        /\ Budgeted(q)
        /\ Resolved(q.obj.namespace).validationMode = "Enforce"
        /\ HasOptIn(q.obj)
        /\ "finops.acasa.acme/resized" \in DOMAIN q.obj.annotations
        /\ Len(q.obj.containers) = 1
        /\ CeilingCpu(q.obj.containers[1]) = 200
        /\ UsedCpu(q.obj.namespace) = 300

-----------------------------------------------------------------------------
(* C8 *)

\* The text a CPU denial is specified to carry.
CpuDenialText(ns, used, limit, request) ==
    "DENIED by FinOps: CPU Budget exceeded for team '" \o ns \o "'. Used: "
        \o ToString(used) \o "m, Limit: " \o ToString(limit) \o "m, Request: "
        \o ToString(request) \o "m"

-----------------------------------------------------------------------------
(* C9 *)

\* The text a memory denial is specified to carry.
MemDenialText(ns, used, limit, request) ==
    "DENIED by FinOps: RAM Budget exceeded for team '" \o ns \o "'. Used: "
        \o ToString(used) \o " bytes, Limit: " \o ToString(limit)
        \o " bytes, Request: " \o ToString(request) \o " bytes"

\* C9: a violation of memory only, in Enforce mode, is denied with "DENIED by
\* FinOps: RAM Budget exceeded for team '<scope>'. Used: <currentMem> bytes,
\* Limit: <limit> bytes, Request: <incomingMem> bytes", and the saved-CPU
\* counter stays as it is.
C9_MemDenial ==
    [][\A q \in BagToSet(req) :
          (/\ ValidateCreateStep(q, TRUE, TRUE)
           /\ Budgeted(q)
           /\ MemOnlyViolation(q.obj, Resolved(q.obj.namespace))
           /\ Resolved(q.obj.namespace).validationMode = "Enforce")
            => /\ req' = Replace(q, [pc |-> "rejected", obj |-> q.obj,
                                     err |-> MemDenialText(q.obj.namespace,
                                                           UsedMem(q.obj.namespace),
                                                           MemLimitBytes,
                                                           CostMem(q.obj))])
               /\ savedCpu' = savedCpu]_vars

\* The denial of a 2Mi workload against 3Mi of usage and a 4Mi limit, the CPU
\* within budget and nothing saved.
C9_Witness ==
    \E q \in BagToSet(req) :
        /\ q.pc = "rejected"
        /\ q.err = "DENIED by FinOps: RAM Budget exceeded for team 'team-beta'. Used: 3145728 bytes, Limit: 4194304 bytes, Request: 2097152 bytes"
        /\ UsedCpu(q.obj.namespace) + CostCpu(q.obj) <= CpuLimitMillis
        /\ savedCpu[q.obj.namespace] = 0

-----------------------------------------------------------------------------
(* C10 *)

\* C10: when the Budget of the scope is resolved and the enumeration of the
\* existing workloads fails, ValidateCreate returns an error, so the workload
\* is not admitted, and changes no counter and emits no event; so also for a
\* workload of cost zero.
C10_ListPodsFailure ==
    [][\A q \in BagToSet(req) :
          (/\ ValidateCreateStep(q, TRUE, FALSE)
           /\ q.obj.kind = "Pod"
           /\ HasBudget(q.obj.namespace))
            => /\ Denied(q)
               /\ rejectedPods' = rejectedPods
               /\ savedCpu' = savedCpu
               /\ events' = events]_vars

\* A workload without any ceiling, refused in a budgeted scope with every
\* counter and the event list untouched.
C10_Witness ==
    \E q \in BagToSet(req) :
        /\ q.pc = "rejected"
        /\ q.obj.kind = "Pod"
        /\ HasBudget(q.obj.namespace)
        /\ CostCpu(q.obj) = 0 /\ CostMem(q.obj) = 0
        /\ q.err # ""
        /\ rejectedPods[q.obj.namespace] = 0
        /\ events = <<>>

-----------------------------------------------------------------------------
(* C11 *)

\* C11: when listing the Budgets fails, ValidateCreate allows every workload,
\* whatever its cost, the usage of its scope and the outcome the enumeration of
\* workloads would have had, changes no counter and emits no event: the
\* outcome of a scope without a Budget.
C11_ListBudgetsFailure ==
    [][\A q \in BagToSet(req) :
          \A podsOk \in BOOLEAN :
             (ValidateCreateStep(q, FALSE, podsOk) /\ q.obj.kind = "Pod")
               => /\ Allowed(q)
                  /\ rejectedPods' = rejectedPods
                  /\ savedCpu' = savedCpu]_vars

\* A workload of 600m admitted into an empty scope whose Enforce-mode Budget
\* allows 500m, with no event and no rejection counted.
C11_Witness ==
    \E q \in BagToSet(req) :
        /\ q.pc = "admitted"
        /\ Budgeted(q)
        /\ Resolved(q.obj.namespace).validationMode = "Enforce"
        /\ pods = EmptyBag
        /\ CostCpu(q.obj) > CpuLimitMillis
        /\ events = <<>>
        /\ rejectedPods[q.obj.namespace] = 0

-----------------------------------------------------------------------------
(* C12 *)

\* C12: a Budget whose limit string does not parse is treated fail-open on
\* that dimension: under a malformed maxCpuLimit a workload that violates no
\* memory limit is allowed, and under a malformed maxMemoryLimit a workload
\* that violates no CPU limit is allowed, whatever its cost and the usage.
C12_MalformedLimitFailOpen ==
    [][\A q \in BagToSet(req) :
          (/\ ValidateCreateStep(q, TRUE, TRUE)
           /\ q.obj.kind = "Pod"
           /\ HasBudget(q.obj.namespace))
            => LET b == Resolved(q.obj.namespace)
               IN  /\ (~CpuLimitParses(b) /\ NoMemViolation(q.obj, b)) => Allowed(q)
                   /\ (/\ CpuLimitParses(b) /\ ~CpuViolation(q.obj)
                       /\ MemLimitSet(b) /\ ~MemLimitParses(b)) => Allowed(q)]_vars

-----------------------------------------------------------------------------
(* C13 *)

\* C13: the mutating path never blocks creation: for every input, an object of
\* an unexpected kind included, and every failure of a listing, Default returns
\* without an error, and when a listing fails or the kind is unexpected the
\* object it leaves is the original.
C13_DefaultNeverErrors ==
    [][\A q \in BagToSet(req) :
          \A budgetsOk \in BOOLEAN, podsOk \in BOOLEAN :
             DefaultStep(q, budgetsOk, podsOk)
               => \E q2 \in BagToSet(req') :
                     /\ req' = Replace(q, q2)
                     /\ q2.pc = "validate" /\ q2.err = ""
                     /\ (~budgetsOk \/ ~podsOk \/ q.obj.kind # "Pod")
                          => (q2.obj = q.obj /\ events' = events)]_vars

\* C13, amended: for every workload (a Pod) and every failure of a listing,
\* Default returns without an error, and when a listing fails the workload it
\* leaves is the original and no event is emitted; for an object that is not a
\* Pod, Default returns the error "expected a Pod but got a <type>" and leaves
\* the object as it is.
C13_DefaultNeverErrorsOnPods ==
    [][\A q \in BagToSet(req) :
          \A budgetsOk \in BOOLEAN, podsOk \in BOOLEAN :
             DefaultStep(q, budgetsOk, podsOk)
               => \E q2 \in BagToSet(req') :
                     /\ req' = Replace(q, q2)
                     /\ q.obj.kind = "Pod" => (q2.pc = "validate" /\ q2.err = "")
                     /\ (q.obj.kind = "Pod" /\ (~budgetsOk \/ ~podsOk))
                          => (q2.obj = q.obj /\ events' = events)
                     /\ q.obj.kind # "Pod"
                          => /\ q2.pc = "rejected"
                             /\ q2.err = "expected a Pod but got a *v1." \o q.obj.kind
                             /\ q2.obj = q.obj
                             /\ events' = events]_vars

\* An opted-in workload that has passed Default as it came, although its 400m
\* ceiling exceeds the 200m that 300m of usage leave of the budget.
C13_Witness ==
    \E q \in BagToSet(req) :
        /\ q.pc = "validate"
        /\ Budgeted(q)
        /\ HasOptIn(q.obj)
        /\ UsedCpu(q.obj.namespace) = 300
        /\ Len(q.obj.containers) > 0
        /\ CeilingCpu(q.obj.containers[1]) = 400
        /\ "finops.acasa.acme/resized" \notin DOMAIN q.obj.annotations
        /\ events = <<>>

-----------------------------------------------------------------------------
(* C14 *)

\* C14: when the request context is canceled while the listing of the Budgets
\* is under way, or while the enumeration of the workloads of a scope with a
\* Budget is, ValidateCreate returns an error: the request is neither allowed,
\* nor allowed with a warning, and no violation is counted or reported.
C14_CancellationSurfaces ==
    [][\A q \in BagToSet(req) :
          \A budgetsErr \in ListResults, podsErr \in ListResults :
             (/\ ValidateCreateStep(q, ListOk(budgetsErr), ListOk(podsErr))
              /\ q.obj.kind = "Pod"
              /\ \/ budgetsErr = ContextCanceled
                 \/ /\ budgetsErr = ""
                    /\ HasBudget(q.obj.namespace)
                    /\ podsErr = ContextCanceled)
               => /\ Denied(q)
                  /\ events' = events
                  /\ rejectedPods' = rejectedPods
                  /\ savedCpu' = savedCpu]_vars

-----------------------------------------------------------------------------
(* C15 *)

\* Whether request q1 is another request for the scope of q that has been
\* allowed and whose workload is not yet created, and whose cost, added to the
\* usage and the cost of q, exceeds the CPU limit.
RacesWith(q1, q) ==
    /\ q1.pc = "admitted"
    /\ q1.obj.kind = "Pod"
    /\ q1.obj.namespace = q.obj.namespace
    /\ UsedCpu(q.obj.namespace) + CostCpu(q1.obj) + CostCpu(q.obj) > CpuLimitMillis

\* C15: the race is open: in an Enforce-mode scope, a request that fits the
\* budget by the enumerated usage is allowed although another request, allowed
\* before and its workload not yet created, takes the two beyond maxCpuLimit;
\* nothing orders the second decision after the first creation.
C15_RaceAllowsBoth ==
    [][\A q \in BagToSet(req) :
          (/\ ValidateCreateStep(q, TRUE, TRUE)
           /\ Budgeted(q)
           /\ Resolved(q.obj.namespace).validationMode = "Enforce"
           /\ ~CpuViolation(q.obj)
           /\ NoMemViolation(q.obj, Resolved(q.obj.namespace))
           /\ \E q1 \in BagToSet(req) : RacesWith(q1, q))
            => /\ Allowed(q)
               /\ rejectedPods' = rejectedPods
               /\ savedCpu' = savedCpu]_vars

\* Two workloads, each within the 500m budget of its Enforce-mode scope, both
\* created: the active CPU usage of the scope exceeds the budget, and no
\* violation was counted or reported.
C15_Witness ==
    /\ HasBudget("team-beta")
    /\ CpuLimitParses(Resolved("team-beta"))
    /\ Resolved("team-beta").validationMode = "Enforce"
    /\ UsedCpu("team-beta") > CpuLimitMillis
    /\ \A p \in BagToSet(pods) : Active(p, "team-beta") /\ CostCpu(p) <= CpuLimitMillis
    /\ BagCardinality(pods) = 2
    /\ events = <<>>
    /\ rejectedPods["team-beta"] = 0

-----------------------------------------------------------------------------
(* C16 *)

\* Whether the workload p violates the CPU limit of the Budget b or, the CPU
\* limit kept, its memory limit.
Violation(p, b) == CpuViolation(p) \/ MemOnlyViolation(p, b)

\* The reason an audit event carries in the mode of the Budget b.
ReasonIn(b) == IF b.validationMode = "Enforce" THEN "BudgetExceeded" ELSE "DryRunViolation"

\* C16: a decision that finds no violation allows, leaves both counters as
\* they are and emits no event; a decision that finds a violation emits
\* exactly one event, of type Warning, on the resolved Budget, with reason
\* BudgetExceeded in Enforce mode and DryRunViolation in DryRun mode.
C16_SideEffectsOnce ==
    [][\A q \in BagToSet(req) :
          (ValidateCreateStep(q, TRUE, TRUE) /\ Budgeted(q))
            => LET b == Resolved(q.obj.namespace)
               IN  /\ ~Violation(q.obj, b)
                      => /\ Allowed(q)
                         /\ rejectedPods' = rejectedPods
                         /\ savedCpu' = savedCpu
                   /\ Violation(q.obj, b)
                      => /\ Len(events') = Len(events) + 1
                         /\ SubSeq(events', 1, Len(events)) = events
                         /\ events'[Len(events')].type = "Warning"
                         /\ events'[Len(events')].object = b.name
                         /\ events'[Len(events')].reason = ReasonIn(b)]_vars

\* Two violating decisions in DryRun mode behind it, both allowed: two events,
\* one for each, and each counted once.
C16_Witness ==
    /\ Len(events) = 2
    /\ \A i \in 1..2 : events[i].type = "Warning" /\ events[i].reason = "DryRunViolation"
    /\ rejectedPods["team-beta"] = 2
    /\ events[1].message # events[2].message

-----------------------------------------------------------------------------
(* C17 *)

\* The text of the one violation a decision on the workload p reports: the CPU
\* violation when there is one, the memory violation otherwise.
ReportedText(p) ==
    IF CpuViolation(p)
    THEN CpuDenialText(p.namespace, UsedCpu(p.namespace), CpuLimitMillis, CostCpu(p))
    ELSE MemDenialText(p.namespace, UsedMem(p.namespace), MemLimitBytes, CostMem(p))

\* Whether the workload p violates both the CPU and the memory limit of the Budget b.
BothViolated(p, b) == CpuViolation(p) /\ MemLimitParses(b) /\ MemViolation(p)

\* C17: the CPU check comes first: a violating decision has one outcome, one
\* event and one message, those of the CPU violation whenever the CPU limit is
\* violated, the memory limit being violated too or not; the memory violation
\* is reported only when the CPU check passes.
C17_CpuThenMemory ==
    [][\A q \in BagToSet(req) :
          (/\ ValidateCreateStep(q, TRUE, TRUE)
           /\ Budgeted(q)
           /\ Violation(q.obj, Resolved(q.obj.namespace)))
            => LET b == Resolved(q.obj.namespace)
                   text == ReportedText(q.obj)
               IN  IF b.validationMode = "Enforce"
                   THEN /\ req' = Replace(q, [pc |-> "rejected", obj |-> q.obj, err |-> text])
                        /\ Len(events') = Len(events) + 1
                        /\ events'[Len(events')].message = text
                   ELSE /\ req' = Replace(q, [pc |-> "admitted", obj |-> q.obj, err |-> ""])
                        /\ Len(events') = Len(events) + 1
                        /\ events'[Len(events')].message
                             = "[DRY-RUN] Violation detected but allowed: " \o text]_vars

\* A workload of 400m and 2Mi denied against 300m and 3Mi of usage, limits
\* 500m and 4Mi: both limits are violated, the one event and the error are
\* those of the CPU violation.
C17_Witness ==
    \E q \in BagToSet(req) :
        /\ q.pc = "rejected"
        /\ Budgeted(q)
        /\ BothViolated(q.obj, Resolved(q.obj.namespace))
        /\ q.err = "DENIED by FinOps: CPU Budget exceeded for team 'team-beta'. Used: 300m, Limit: 500m, Request: 400m"
        /\ Len(events) = 1
        /\ events[1].message = q.err

-----------------------------------------------------------------------------
(* C18 *)

-----------------------------------------------------------------------------
(* C19 *)

\* The budgets items with the status the controller has written taken away.
Unreconciled(items) == [i \in 1..Len(items) |-> [items[i] EXCEPT !.status = NoStatus]]

\* C19: the decision never depends on the status the controller has written to
\* the Budget: in every state, for every incoming workload and every outcome
\* of the enumeration of workloads, ValidateCreate and Default return the
\* same, with the same side effects, as in the state that differs only in
\* that currentCpuUsage and lastCheckTime are not set.
C19_StatusIgnored ==
    \A obj \in ReconciledPods, podsOk \in BOOLEAN :
        /\ ValidateCreateOn(budgets, obj, TRUE, podsOk)
             = ValidateCreateOn(Unreconciled(budgets), obj, TRUE, podsOk)
        /\ DefaultOn(budgets, obj, TRUE, podsOk)
             = DefaultOn(Unreconciled(budgets), obj, TRUE, podsOk)

\* The status reports 300m, of a workload that has terminated since; the live
\* usage is 0 and a workload of 400m has been allowed in Enforce mode, as the
\* snapshot would not have let it.
C19_Witness ==
    /\ Len(budgets) = 1
    /\ budgets[1].status.currentCpuUsage = <<"3", "0", "0", "m">>
    /\ budgets[1].validationMode = "Enforce"
    /\ CpuLimitParses(budgets[1])
    /\ UsedCpu("team-beta") = 0
    /\ BagCardinality(pods) = 1
    /\ events = <<>>
    /\ \E q \in BagToSet(req) : q.pc = "admitted" /\ CostCpu(q.obj) = 400

\* C20: in every reachable state and for every scope, the usage computed by
\* calculateCurrentUsage (mutating path) and the usage ValidateCreate sums
\* inline (validating path) are both the sum, over the scope's workloads whose
\* phase is neither Succeeded nor Failed, of the CPU ceilings and of the memory
\* ceilings of all their containers, a container without a ceiling counting
\* 0; terminal workloads and workloads of other scopes add nothing, and the
\* two paths agree.
C20_UsageAggregation ==
    \A ns \in Namespaces :
        /\ calculateCurrentUsage(InNamespace(ns)) = [cpu |-> UsedCpu(ns), mem |-> UsedMem(ns)]
        /\ ExistingUsage(InNamespace(ns)) = [cpu |-> UsedCpu(ns), mem |-> UsedMem(ns)]
        /\ calculateCurrentUsage(InNamespace(ns)) = ExistingUsage(InNamespace(ns))

\* C20's case: scope team-beta holds only a terminal workload with a CPU
\* ceiling, so its usage is 0, while scope team-alpha holds an active workload
\* of 600m whose containers declare no memory ceiling, so its usage is
\* 600m and 0 bytes.
C20_Witness ==
    /\ \E p \in BagToSet(pods) :
            /\ p.namespace = "team-beta"
            /\ p.phase = PodFailed
            /\ CostCpu(p) > 0
    /\ \E p \in BagToSet(pods) :
            /\ p.namespace = "team-alpha"
            /\ p.phase = PodRunning
            /\ CostCpu(p) = 600
            /\ \A i \in 1..Len(p.containers) : "memory" \notin DOMAIN p.containers[i].limits
    /\ calculateCurrentUsage(InNamespace("team-beta")) = [cpu |-> 0, mem |-> 0]
    /\ ExistingUsage(InNamespace("team-alpha")) = [cpu |-> 600, mem |-> 0]

-----------------------------------------------------------------------------
(* C21 *)

\* Whether request q awaits the Auto-Sizer with an opted-in workload in an
\* Enforce-mode scope whose budget is full: remaining <= 0.
FullBudget(q) ==
    /\ q.pc = "mutate"
    /\ Budgeted(q)
    /\ HasOptIn(q.obj)
    /\ Resolved(q.obj.namespace).validationMode = "Enforce"
    /\ Remaining(q.obj.namespace) <= 0

-----------------------------------------------------------------------------
(* C22 *)

\* C22: the Auto-Sizer only makes a request more likely to pass the Enforcer.
\* For every workload that awaits it, whatever the outcome of its listings, the
\* CPU cost of the workload it returns is at most that of the original and the
\* memory cost is the same; and whenever ValidateCreate, in the same state and
\* with the same outcome of its own listings, allows the original, it allows
\* the returned workload too.
C22_NeverLessLikely ==
    \A q \in BagToSet(req) :
        (q.pc = "mutate" /\ q.obj.kind = "Pod") =>
            \A budgetsOk \in BOOLEAN, podsOk \in BOOLEAN :
                LET mutated == DefaultCall(q.obj, budgetsOk, podsOk)
                IN  /\ mutated.err = ""
                    /\ CostCpu(mutated.obj) <= CostCpu(q.obj)
                    /\ CostMem(mutated.obj) = CostMem(q.obj)
                    /\ \A listed \in BOOLEAN, counted \in BOOLEAN :
                          ValidateCreateCall(q.obj, listed, counted).err = ""
                            => ValidateCreateCall(mutated.obj, listed, counted).err = ""

\* A DryRun-mode scope with 300m of 500m used: the opted-in request for 400m,
\* which the Enforcer would have let pass with a warning, was cut to 200m by
\* the Auto-Sizer and has been admitted.
C22_Witness ==
    \E q \in BagToSet(req) :
        /\ q.pc = "admitted"
        /\ Budgeted(q)
        /\ Resolved(q.obj.namespace).validationMode = "DryRun"
        /\ "finops.acasa.acme/resized" \in DOMAIN q.obj.annotations
        /\ UsedCpu(q.obj.namespace) = 300
        /\ CostCpu(q.obj) = 200
        /\ \E e \in 1..Len(events) : events[e].reason = "PodAutoSized"

-----------------------------------------------------------------------------
(* C23 *)

\* Whether the workload after differs from the workload before in the CPU
\* ceiling of its first container.
Overwrote(before, after) ==
    /\ Len(before.containers) > 0
    /\ Len(after.containers) > 0
    /\ CeilingCpu(after.containers[1]) # CeilingCpu(before.containers[1])

\* Whether the workload p carries the annotation resized = "true".
MarkedResized(p) ==
    /\ "finops.acasa.acme/resized" \in DOMAIN p.annotations
    /\ p.annotations["finops.acasa.acme/resized"] = "true"

\* The audit event of a resize on the Budget b, naming the old and the new ceiling.
AutoSizedEvent(b, old, new) ==
    [object |-> b.name, type |-> "Normal", reason |-> "PodAutoSized",
     message |-> "Auto-Sized Pod CPU from " \o ToString(old) \o "m to "
                    \o ToString(new) \o "m to fit budget"]

\* C23: whatever the outcome of its listings, the Auto-Sizer sets the
\* annotation resized = "true" and emits exactly one PodAutoSized event on the
\* Budget, naming the old and the new ceiling, if and only if it overwrote the
\* first container's CPU ceiling; on every other path the workload leaves as
\* it came, unmarked, and no event is emitted.
C23_MarkAndEventIffResized ==
    [][\A q \in BagToSet(req) :
          \A budgetsOk \in BOOLEAN, podsOk \in BOOLEAN :
             (DefaultStep(q, budgetsOk, podsOk) /\ q.obj.kind = "Pod") =>
                \E q2 \in BagToSet(req') :
                   /\ req' = Replace(q, q2)
                   /\ q2.pc = "validate"
                   /\ IF Overwrote(q.obj, q2.obj)
                      THEN /\ MarkedResized(q2.obj)
                           /\ HasBudget(q.obj.namespace)
                           /\ events' = Append(events,
                                  AutoSizedEvent(Resolved(q.obj.namespace),
                                                 CeilingCpu(q.obj.containers[1]),
                                                 CeilingCpu(q2.obj.containers[1])))
                      ELSE /\ q2.obj = q.obj
                           /\ ~MarkedResized(q2.obj)
                           /\ events' = events]_vars

\* The Auto-Sizer has cut an opted-in request from 400m to 200m: the workload
\* is marked and the one event on the Budget names both ceilings.
C23_Witness ==
    \E q \in BagToSet(req) :
        /\ q.pc = "validate"
        /\ MarkedResized(q.obj)
        /\ Len(q.obj.containers) > 0
        /\ CeilingCpu(q.obj.containers[1]) = 200
        /\ events = << [object |-> "beta-budget", type |-> "Normal",
                        reason |-> "PodAutoSized",
                        message |-> "Auto-Sized Pod CPU from 400m to 200m to fit budget"] >>

-----------------------------------------------------------------------------
(* C24 *)

\* Whether the workloads before and after have the same containers but for
\* the CPU ceiling of the first: the CPU ceilings of the second and later
\* containers and the memory ceilings of all are the same.
OnlyFirstCpuTouched(before, after) ==
    /\ Len(after.containers) = Len(before.containers)
    /\ \A i \in 2..Len(before.containers) : after.containers[i] = before.containers[i]
    /\ \A i \in 1..Len(before.containers) :
          /\ ("memory" \in DOMAIN after.containers[i].limits)
                <=> ("memory" \in DOMAIN before.containers[i].limits)
          /\ CeilingMem(after.containers[i]) = CeilingMem(before.containers[i])

\* C24: whatever the outcome of its listings, the Auto-Sizer changes, of the
\* containers of a workload, the CPU ceiling of the first at most: the CPU
\* ceilings of the second and later containers and the memory ceilings of all
\* containers are the same before and after Default, also when the workload's
\* total CPU cost still exceeds the remaining budget after the clamp.
C24_OnlyFirstContainer ==
    [][\A q \in BagToSet(req) :
          \A budgetsOk \in BOOLEAN, podsOk \in BOOLEAN :
             (DefaultStep(q, budgetsOk, podsOk) /\ q.obj.kind = "Pod") =>
                \E q2 \in BagToSet(req') :
                   /\ req' = Replace(q, q2)
                   /\ OnlyFirstCpuTouched(q.obj, q2.obj)]_vars

\* A workload of two containers, 400m and 200m with 1Mi each, cut against
\* 200m of remaining budget: the first container holds 200m, the second its
\* 200m still, each its 1Mi, and the total of 400m exceeds what is left.
C24_Witness ==
    \E q \in BagToSet(req) :
        /\ q.pc = "validate"
        /\ Budgeted(q)
        /\ MarkedResized(q.obj)
        /\ Len(q.obj.containers) = 2
        /\ Remaining(q.obj.namespace) = 200
        /\ CeilingCpu(q.obj.containers[1]) = 200
        /\ CeilingCpu(q.obj.containers[2]) = 200
        /\ CeilingMem(q.obj.containers[1]) = 1024 * 1024
        /\ CeilingMem(q.obj.containers[2]) = 1024 * 1024
        /\ CostCpu(q.obj) > Remaining(q.obj.namespace)

-----------------------------------------------------------------------------
(* C25 *)

\* The listing with, of the Budgets whose teamName is ns, only the first kept.
RECURSIVE WithoutLater(_, _, _)
WithoutLater(items, ns, seen) ==
    IF items = <<>> THEN <<>>
    ELSE IF Head(items).teamName = ns
         THEN (IF seen THEN <<>> ELSE <<Head(items)>>) \o WithoutLater(Tail(items), ns, TRUE)
         ELSE <<Head(items)>> \o WithoutLater(Tail(items), ns, seen)

\* Whether several Budgets have teamName ns.
Duplicated(ns) ==
    \E i, j \in DOMAIN budgets :
        i < j /\ budgets[i].teamName = ns /\ budgets[j].teamName = ns

\* C25: when several Budgets have teamName equal to the scope of a workload,
\* ValidateCreate and Default decide, count and record exactly as they do on
\* the listing without the later ones, whatever the outcome of listing the
\* Pods; every event either of them records is on the first matching Budget
\* of the listing, so that both paths resolve the same Budget.
C25_FirstMatchWins ==
    \A q \in BagToSet(req) :
        (q.obj.kind = "Pod" /\ Duplicated(q.obj.namespace)) =>
            \A podsOk \in BOOLEAN :
                LET ns == q.obj.namespace
                    decided == ValidateCreateOn(budgets, q.obj, TRUE, podsOk)
                    mutated == DefaultOn(budgets, q.obj, TRUE, podsOk)
                IN  /\ decided = ValidateCreateOn(WithoutLater(budgets, ns, FALSE),
                                                  q.obj, TRUE, podsOk)
                    /\ mutated = DefaultOn(WithoutLater(budgets, ns, FALSE),
                                           q.obj, TRUE, podsOk)
                    /\ \A e \in 1..Len(decided.events) :
                          decided.events[e].object = Resolved(ns).name
                    /\ \A e \in 1..Len(mutated.events) :
                          mutated.events[e].object = Resolved(ns).name

\* Behind another team's budget, team-beta has a first Budget of 500m in
\* Enforce mode and a second of 200m in DryRun mode.  With 300m in use the
\* opted-in request for 400m was cut to the 200m the first Budget leaves, with
\* the event on that Budget, and admitted without the warning the second would
\* have raised.
C25_Witness ==
    /\ Len(budgets) = 3
    /\ budgets[1].teamName = "team-alpha"
    /\ budgets[2].teamName = "team-beta"
    /\ budgets[3].teamName = "team-beta"
    /\ budgets[2].validationMode = "Enforce"
    /\ budgets[3].validationMode = "DryRun"
    /\ UsedCpu("team-beta") = 300
    /\ events = <<AutoSizedEvent(budgets[2], 400, 200)>>
    /\ \E q \in BagToSet(req) :
          /\ q.pc = "admitted"
          /\ q.obj.namespace = "team-beta"
          /\ MarkedResized(q.obj)
          /\ CostCpu(q.obj) = 200

-----------------------------------------------------------------------------
(* C26 *)

\* The CPU cost of the workloads of scope ns among the requests rs that are
\* allowed and not yet created.
RECURSIVE AllowedCost(_, _)
AllowedCost(rs, ns) ==
    IF rs = {} THEN 0
    ELSE LET r == CHOOSE x \in rs : TRUE
         IN  AllowedCost(rs \ {r}, ns)
               + (IF r.pc = "admitted" /\ r.obj.kind = "Pod" /\ r.obj.namespace = ns
                  THEN req[r] * CostCpu(r.obj) ELSE 0)

\* What scope ns has committed of its budget: its active usage and the cost of
\* its workloads allowed and not yet created.
Committed(ns) == UsedCpu(ns) + AllowedCost(DOMAIN req, ns)

\* Whether scope ns has a Budget in Enforce mode with a well-formed CPU limit.
Enforced(ns) ==
    /\ HasBudget(ns)
    /\ CpuLimitParses(Resolved(ns))
    /\ Resolved(ns).validationMode = "Enforce"

-----------------------------------------------------------------------------
(* C27 *)

\* The response that allows: no error, no warning, no event, no counter moved.
AllowsSilently(res) ==
    /\ res.err = ""
    /\ res.warnings = <<>>
    /\ res.events = <<>>
    /\ res.rejected = 0
    /\ res.saved = 0

\* Whether the events after are the events before followed by none but the
\* Auto-Sizer's own.
NoEnforcerEvent(before, after) ==
    /\ Len(after) >= Len(before)
    /\ SubSeq(after, 1, Len(before)) = before
    /\ \A e \in (Len(before) + 1)..Len(after) : after[e].reason = "PodAutoSized"

\* C27: ValidateUpdate and ValidateDelete always allow.  For every persisted
\* workload, every update of it (one that carries the scope over its budget
\* included) and every deletion, they return no error and no warning, move no
\* counter and emit no event: the update and the deletion take effect, the
\* counters stay as they are and no event of the Enforcer is recorded.
C27_UpdateDeleteAllow ==
    [][/\ \A p \in BagToSet(pods) : \A newObj \in ScaledUp(p) :
             /\ AllowsSilently(ValidateUpdateCall(p, newObj))
             /\ UpdatePod(p, newObj) =>
                   /\ \E persisted \in BagToSet(pods') :
                         /\ pods' = BagAdd(BagRemove(pods, p), persisted)
                         /\ persisted.namespace = p.namespace
                   /\ rejectedPods' = rejectedPods
                   /\ savedCpu' = savedCpu
                   /\ NoEnforcerEvent(events, events')
       /\ \A p \in BagToSet(pods) :
             /\ AllowsSilently(ValidateDeleteCall(p))
             /\ DeletePod(p) =>
                   /\ pods' = BagRemove(pods, p)
                   /\ rejectedPods' = rejectedPods
                   /\ savedCpu' = savedCpu
                   /\ events' = events]_vars

\* In an Enforce-mode scope with a 500m budget, the one persisted workload was
\* scaled up to 600m: the update went through, no counter moved and no event
\* was recorded.
C27_Witness ==
    /\ Enforced("team-beta")
    /\ BagCardinality(pods) = 1
    /\ \E p \in BagToSet(pods) :
          /\ Active(p, "team-beta")
          /\ Len(p.containers) = 1
          /\ CeilingCpu(p.containers[1]) = 600
    /\ UsedCpu("team-beta") > CpuLimitMillis
    /\ rejectedPods["team-beta"] = 0
    /\ savedCpu["team-beta"] = 0
    /\ events = <<>>

=============================================================================
